---- MODULE Spec2Model ----
(***************************************************************************)
(* Lazy checkpoint loading of lightning/fabric/utilities/load.py.          *)
(*                                                                         *)
(* The state is the archive (the records of the checkpoint file), the heap *)
(* of _NotYetLoadedTensor objects (mutable Python objects, addressed by    *)
(* their position in `heap`), the data.pkl stream of the file _lazy_load   *)
(* opened and the object graph it returned, the number of reads issued     *)
(* against the PyTorchFileReader and a record of the last call made into   *)
(* the module.                                                             *)
(***************************************************************************)
EXTENDS Integers, Sequences, FiniteSets, TLC

VARIABLES archive, stream, heap, graph, recordReads, storageReads, last

vars == <<archive, stream, heap, graph, recordReads, storageReads, last>>

\* ------------------------------------------------------------------ bounds
\* Longest chain of composed closures on one placeholder / deepest nesting of
\* wrapping rebuild calls in a pickled leaf.
MaxWrap == 2
\* Largest number of _NotYetLoadedTensor objects built by direct calls of the
\* rebuild functions (an unpickled graph holds as many as its stream describes).
MaxObjs == 1
\* Cap on the counter of get_storage_from_record calls.
MaxReads == 2

\* ------------------------------------------------------------------ values
NoVal == [kind |-> "none"]
Ref(id) == [kind |-> "ref", id |-> id]
Const(v) == [kind |-> "const", v |-> v]
IsPlaceholder(v) == v.kind = "ref"

\* Persistent ids of the pickle stream: (name, storage class, record, device, numel).
Pid(fn, cls, numel) ==
    [name |-> "storage", cls |-> cls, fn |-> fn, device |-> "cpu", numel |-> numel]
FNs == {0, 1}
\* The bytes of record data/fn of the checkpoint file.
Bytes(fn) == <<"bytes", fn>>

\* cls().dtype of a storage class, and torch._utils._element_size of a dtype.
StorageDtype(cls) == IF cls = "FloatStorage" THEN "float32" ELSE "float16"
ElementSize(dtype) == IF dtype = "float32" THEN 4 ELSE 2

\* (storage_offset, size, stride, requires_grad, backward_hooks, metadata)
Args(off, size, stride, rg) ==
    [storage_offset |-> off, size |-> size, stride |-> stride, requires_grad |-> rg,
     backward_hooks |-> "hooks", metadata |-> "None"]
\* The tensors the pickle streams describe: a persistent id with the arguments of
\* the rebuild call viewing it.
TensorCalls ==
    {[pid |-> Pid(0, "FloatStorage", 4), a |-> Args(0, <<2, 2>>, <<2, 1>>, FALSE)],
     [pid |-> Pid(1, "HalfStorage", 2), a |-> Args(1, <<1>>, <<1>>, TRUE)]}

TypeNames == {"SubTensor"}
States == {"st"}

\* ------------------------------------------------- torch (called by the code)
\* torch._utils._rebuild_tensor_v2(storage, storage_offset, size, stride, ...):
\* a plain tensor viewing `storage`.
torch_rebuild_tensor_v2(storage, a) ==
    [kind |-> "tensor", cls |-> "Tensor", is_param |-> FALSE,
     requires_grad |-> a.requires_grad, state |-> "None", storage |-> storage,
     storage_offset |-> a.storage_offset, size |-> a.size, stride |-> a.stride,
     metadata |-> a.metadata]

\* torch._tensor._rebuild_from_type_v2 once its func has returned `ret`:
\* ret.as_subclass(new_type) when the type differs, then the state is set.
torch_rebuild_from_type_v2(ret, new_type, state) ==
    [ret EXCEPT !.cls = new_type,
                !.is_param = IF ret.cls = new_type THEN @ ELSE FALSE,
                !.state = state]

\* torch._utils._rebuild_parameter(data, requires_grad, backward_hooks).
torch_rebuild_parameter(data, requires_grad, backward_hooks) ==
    [data EXCEPT !.cls = IF @ = "Tensor" THEN "Parameter" ELSE @,
                 !.is_param = TRUE,
                 !.requires_grad = requires_grad]

\* getattr(tensor, name) for the names the model reads.
TensorAttr(t, name) ==
    CASE name = "dtype" -> [kind |-> "value", v |-> t.storage.dtype]
      [] name \in {"shape", "size"} -> [kind |-> "value", v |-> t.size]
      [] name = "stride" -> [kind |-> "value", v |-> t.stride]
      [] name = "ndim" -> [kind |-> "value", v |-> Len(t.size)]
      [] name = "requires_grad" -> [kind |-> "value", v |-> t.requires_grad]
      [] OTHER -> [kind |-> "value", v |-> "None"]

\* ------------------------------------------------------- PyTorchFileReader
\* file_reader.get_storage_from_record(name, nbytes, UntypedStorage) followed by
\* TypedStorage(wrap_storage=uts, dtype=dtype): the first nbytes of the record.
get_storage_from_record(arch, fn, nbytes, dtype) ==
    [kind |-> "storage", dtype |-> dtype, device |-> "cpu", nbytes |-> nbytes,
     data |-> arch[fn], archiveinfo |-> NoVal]

Request(fn, nbytes) == [name |-> <<"data", fn>>, nbytes |-> nbytes, kind |-> "UntypedStorage"]

\* ------------------------------------------------------ _LazyLoadingUnpickler
persistent_load(pid) ==
    [kind |-> "storage", dtype |-> StorageDtype(pid.cls), device |-> "meta", nbytes |-> 0,
     data |-> "nodata", archiveinfo |-> pid]

\* ------------------------------------------------------- _NotYetLoadedTensor
\* The closure a rebuild composes onto `_load_tensor`: the wrapper it applies to
\* the tensor the older `_load_tensor` returns.
TypeStep(new_type, state) ==
    [w |-> "type", new_type |-> new_type, state |-> state, requires_grad |-> FALSE,
     backward_hooks |-> "None"]
ParamStep(requires_grad, backward_hooks) ==
    [w |-> "param", new_type |-> "None", state |-> "None", requires_grad |-> requires_grad,
     backward_hooks |-> backward_hooks]

NotYetLoadedTensor(metatensor, archiveinfo, storageinfo, rebuild_args) ==
    [metatensor |-> metatensor, archiveinfo |-> archiveinfo, storageinfo |-> storageinfo,
     rebuild_args |-> rebuild_args, load |-> <<>>]

\* rebuild_tensor_v2 handing the stride to the meta tensor as its size.
rebuild_tensor_v2_swapped(storage, a, archiveinfo, h) ==
    LET rebuild_args == a
        metatensor == torch_rebuild_tensor_v2(storage, [a EXCEPT !.size = a.stride])
        storageinfo == storage.archiveinfo
    IN  [heap |-> Append(h, NotYetLoadedTensor(metatensor, archiveinfo, storageinfo,
                                                 rebuild_args)),
         val |-> Ref(Len(h) + 1)]

\* rebuild_tensor_v2: a new placeholder around the meta tensor; nothing is read.
rebuild_tensor_v2(storage, a, archiveinfo, h) ==
    LET rebuild_args == a
        metatensor == torch_rebuild_tensor_v2(storage, a)
        storageinfo == storage.archiveinfo
    IN  [heap |-> Append(h, NotYetLoadedTensor(metatensor, archiveinfo, storageinfo,
                                                 rebuild_args)),
         val |-> Ref(Len(h) + 1)]

\* rebuild_parameter composing onto the class's _load_tensor, so that what was
\* composed earlier is lost.
rebuild_parameter_replacing(data, requires_grad, backward_hooks, h) ==
    IF IsPlaceholder(data)
    THEN [heap |-> [h EXCEPT ![data.id].load = <<ParamStep(requires_grad, backward_hooks)>>],
          val |-> data]
    ELSE [heap |-> h, val |-> torch_rebuild_parameter(data, requires_grad, backward_hooks)]

\* rebuild_parameter wrapping before, not after, what was composed earlier.
rebuild_parameter_prepend(data, requires_grad, backward_hooks, h) ==
    IF IsPlaceholder(data)
    THEN [heap |-> [h EXCEPT ![data.id].load =
                                 <<ParamStep(requires_grad, backward_hooks)>> \o @],
          val |-> data]
    ELSE [heap |-> h, val |-> torch_rebuild_parameter(data, requires_grad, backward_hooks)]

\* rebuild_parameter: a placeholder gets the wrapping composed onto its
\* _load_tensor and is returned itself; anything else is wrapped at once.
rebuild_parameter(data, requires_grad, backward_hooks, h) ==
    IF IsPlaceholder(data)
    THEN [heap |-> [h EXCEPT ![data.id].load =
                                 Append(@, ParamStep(requires_grad, backward_hooks))],
          val |-> data]
    ELSE [heap |-> h, val |-> torch_rebuild_parameter(data, requires_grad, backward_hooks)]

RECURSIVE Apply(_, _)
RECURSIVE rebuild_from_type_v2(_, _, _, _)

\* rebuild_from_type_v2(func, new_type, args, state): `call` is func with its
\* args.  ret = func(*args); a placeholder gets the type change composed onto its
\* _load_tensor; otherwise torch._tensor._rebuild_from_type_v2(func, new_type,
\* args, state) is called, which calls func(*args) itself.  ncalls counts the
\* invocations of func, inner is what the first one returned, pre the object
\* it returned before the composition.
rebuild_from_type_v2(call, new_type, state, h) ==
    LET r == Apply(call, h)
        ret == r.val
    IN  IF IsPlaceholder(ret)
        THEN [heap |-> [r.heap EXCEPT ![ret.id].load = Append(@, TypeStep(new_type, state))],
              val |-> ret, ncalls |-> 1, inner |-> ret, pre |-> r.heap[ret.id]]
        ELSE LET r2 == Apply(call, r.heap)
             IN  [heap |-> r2.heap,
                  val |-> torch_rebuild_from_type_v2(r2.val, new_type, state),
                  ncalls |-> 2, inner |-> ret, pre |-> NoVal]

\* func(*args) for the callables find_class hands to the unpickler.
Apply(call, h) ==
    CASE call.func = "rebuild_tensor_v2" ->
             rebuild_tensor_v2(call.storage, call.a, "mup", h)
      [] call.func = "rebuild_parameter" ->
             rebuild_parameter(call.data, call.requires_grad, call.backward_hooks, h)
      [] call.func = "rebuild_from_type_v2" ->
             LET r == rebuild_from_type_v2(call.inner, call.new_type, call.state, h)
             IN  [heap |-> r.heap, val |-> r.val]
      [] OTHER ->  \* torch._utils._rebuild_tensor, resolved by pickle's own find_class
             [heap |-> h,
              val |-> torch_rebuild_tensor_v2(call.storage, call.a)]

\* find_class with the redirection of _rebuild_tensor_v2 left out.
find_class_tensor_unredirected(module, name) ==
    CASE module = "torch._tensor" /\ name = "_rebuild_from_type_v2" -> "rebuild_from_type_v2"
      [] module = "torch._utils" /\ name = "_rebuild_parameter" -> "rebuild_parameter"
      [] OTHER -> name

\* find_class(module, name): the three rebuild functions are redirected.
find_class(module, name) ==
    CASE module = "torch._utils" /\ name = "_rebuild_tensor_v2" -> "rebuild_tensor_v2"
      [] module = "torch._tensor" /\ name = "_rebuild_from_type_v2" -> "rebuild_from_type_v2"
      [] module = "torch._utils" /\ name = "_rebuild_parameter" -> "rebuild_parameter"
      [] OTHER -> name

RECURSIVE RunSteps(_, _)
\* The composed closures, oldest first: t = old_lt(), then the wrapper on t.
RunSteps(t, steps) ==
    IF steps = <<>> THEN t
    ELSE LET s == Head(steps)
         IN  RunSteps(IF s.w = "type"
                      THEN torch_rebuild_from_type_v2(t, s.new_type, s.state)
                      ELSE torch_rebuild_parameter(t, s.requires_grad, s.backward_hooks),
                      Tail(steps))

\* _load_tensor asking for as many bytes as the storage has elements.
_load_tensor_numel(p, arch) ==
    LET fn == p.storageinfo.fn
        size == p.storageinfo.numel
        dtype == p.metatensor.storage.dtype
        storage == get_storage_from_record(arch, fn, size, dtype)
    IN  [val |-> RunSteps(torch_rebuild_tensor_v2(storage, p.rebuild_args), p.load),
         reqs |-> <<Request(fn, size)>>]

\* _load_tensor of placeholder object p: one read of the record of its
\* storageinfo, the plain rebuild on it, then what the rebuilds composed.
_load_tensor(p, arch) ==
    LET fn == p.storageinfo.fn
        size == p.storageinfo.numel
        dtype == p.metatensor.storage.dtype
        nbytes == size * ElementSize(dtype)
        storage == get_storage_from_record(arch, fn, nbytes, dtype)
    IN  [val |-> RunSteps(torch_rebuild_tensor_v2(storage, p.rebuild_args), p.load),
         reqs |-> <<Request(fn, nbytes)>>]

\* Attribute names the model reads on a placeholder.
MetaAttrs ==
    {"dtype", "grad", "grad_fn", "layout", "names", "ndim", "output_nr", "requires_grad",
     "retains_grad", "size", "shape", "volatile"}

\* __getattr__ materializing for every name off the allow-list.
getattr_materializing(p, name, arch) ==
    IF name \in MetaAttrs
    THEN [val |-> TensorAttr(p.metatensor, name), reqs |-> <<>>]
    ELSE LET r == _load_tensor(p, arch)
         IN  [val |-> [kind |-> "method", name |-> name, self |-> r.val], reqs |-> r.reqs]

\* __getattr__(self, name): reached when `name` is no attribute of the object.
__getattr__(p, name, arch) ==
    IF name \in MetaAttrs
    THEN [val |-> TensorAttr(p.metatensor, name), reqs |-> <<>>]
    ELSE IF name \in {"contiguous"}
    THEN LET r == _load_tensor(p, arch)
         IN  [val |-> [kind |-> "method", name |-> name, self |-> r.val], reqs |-> r.reqs]
    ELSE [val |-> [kind |-> "AttributeError"], reqs |-> <<>>]

\* ------------------------------------------------------------ pickle streams
\* A pickled object: REDUCE of one of the rebuild globals over its pickled
\* arguments, a plain value, a memo reference to an earlier tensor object, or a
\* container of pickled objects.
TensorV2(c) == [op |-> "_rebuild_tensor_v2", module |-> "torch._utils", pid |-> c.pid, a |-> c.a]
TensorV1(c) == [op |-> "_rebuild_tensor", module |-> "torch._utils", pid |-> c.pid, a |-> c.a]
Typed(e, t, st) ==
    [op |-> "_rebuild_from_type_v2", module |-> "torch._tensor", inner |-> e,
     new_type |-> t, state |-> st]
Param(e, rg) ==
    [op |-> "_rebuild_parameter", module |-> "torch._utils", inner |-> e,
     requires_grad |-> rg, backward_hooks |-> "hooks"]
Plain(v) == [op |-> "const", v |-> v]
Memo(i) == [op |-> "memo", idx |-> i]
SeqOf(items) == [op |-> "seq", items |-> items]
MapOf(keys, items) == [op |-> "map", keys |-> keys, items |-> items]

Wrappings(S) ==
    {Typed(e, t, st) : e \in S, t \in TypeNames, st \in States}
        \cup {Param(e, rg) : e \in S, rg \in BOOLEAN}

RECURSIVE Nested(_, _)
Nested(S, d) == IF d = 0 THEN S ELSE LET N == Nested(S, d - 1) IN N \cup Wrappings(N)

\* Leaves built from the three known reconstruction operations only, and leaves
\* that also use torch._utils._rebuild_tensor, which find_class does not redirect.
KnownLeaves == Nested({TensorV2(c) : c \in TensorCalls}, MaxWrap)
LegacyLeaves ==
    Nested({TensorV1(c) : c \in TensorCalls}, 1)
        \cup {Typed(Param(TensorV1(c), TRUE), t, "st") : c \in TensorCalls, t \in TypeNames}
Leaves == KnownLeaves \cup LegacyLeaves

Tails ==
    {Plain("epoch"), Memo(1),
     SeqOf(<<TensorV2(CHOOSE c \in TensorCalls : c.pid.fn = 1), Plain("lr")>>)}

\* The object graphs of the archives: a mapping whose second value may be a
\* sequence.
Pickles == {MapOf(<<"w", "b">>, <<l, t>>) : l \in Leaves, t \in Tails}

RECURSIVE HasOp(_, _)
HasOp(e, op) ==
    \/ e.op = op
    \/ e.op \in {"_rebuild_from_type_v2", "_rebuild_parameter"} /\ HasOp(e.inner, op)
    \/ e.op \in {"seq", "map"} /\ \E i \in 1..Len(e.items) : HasOp(e.items[i], op)

RECURSIVE EvalCall(_, _)
\* The REDUCE of e with its arguments unpickled: the callable find_class gives
\* for e's global, and the argument values.  Arguments are unpickled before the
\* call, so a pickled parameter's data has been rebuilt by then.
EvalCall(e, h) ==
    LET func == find_class(e.module, e.op)
    IN  CASE e.op \in {"_rebuild_tensor_v2", "_rebuild_tensor"} ->
                 [heap |-> h,
                  call |-> [func |-> func, storage |-> persistent_load(e.pid), a |-> e.a]]
          [] e.op = "_rebuild_parameter" ->
                 LET c == EvalCall(e.inner, h)
                     r == Apply(c.call, c.heap)
                 IN  [heap |-> r.heap,
                      call |-> [func |-> func, data |-> r.val,
                                requires_grad |-> e.requires_grad,
                                backward_hooks |-> e.backward_hooks]]
          [] OTHER ->
                 LET c == EvalCall(e.inner, h)
                 IN  [heap |-> c.heap,
                      call |-> [func |-> func, inner |-> c.call, new_type |-> e.new_type,
                                state |-> e.state]]

RECURSIVE Unpickle(_, _, _)
RECURSIVE UnpickleItems(_, _, _, _)
\* pickle.Unpickler.load over the stream: containers are rebuilt item by item,
\* tensor objects enter the memo in the order they are built.
Unpickle(e, h, memo) ==
    CASE e.op = "const" -> [heap |-> h, val |-> Const(e.v), memo |-> memo]
      [] e.op = "memo" -> [heap |-> h, val |-> memo[e.idx], memo |-> memo]
      [] e.op \in {"seq", "map"} ->
             LET r == UnpickleItems(e.items, h, memo, <<>>)
             IN  [heap |-> r.heap, memo |-> r.memo,
                  val |-> IF e.op = "seq"
                          THEN [kind |-> "seq", items |-> r.vals]
                          ELSE [kind |-> "map", keys |-> e.keys, items |-> r.vals]]
      [] OTHER ->
             LET c == EvalCall(e, h)
                 r == Apply(c.call, c.heap)
             IN  [heap |-> r.heap, val |-> r.val, memo |-> Append(memo, r.val)]

UnpickleItems(items, h, memo, done) ==
    IF items = <<>> THEN [heap |-> h, memo |-> memo, vals |-> done]
    ELSE LET r == Unpickle(Head(items), h, memo)
         IN  UnpickleItems(Tail(items), r.heap, r.memo, Append(done, r.val))

\* _lazy_load: one get_record for the object-graph stream, then the unpickler.
_lazy_load(pkl, h) ==
    LET r == Unpickle(pkl, h, <<>>)
    IN  [heap |-> r.heap, val |-> r.val, records |-> <<"data.pkl">>]

RECURSIVE LoadArgs(_, _, _)
\* The list comprehension of __torch_function__ over args.
LoadArgs(args, h, arch) ==
    IF args = <<>> THEN [vals |-> <<>>, reqs |-> <<>>]
    ELSE LET arg == Head(args)
             r == IF IsPlaceholder(arg) THEN _load_tensor(h[arg.id], arch)
                  ELSE [val |-> arg, reqs |-> <<>>]
             rest == LoadArgs(Tail(args), h, arch)
         IN  [vals |-> <<r.val>> \o rest.vals, reqs |-> r.reqs \o rest.reqs]

RECURSIVE _materialize_tensors(_, _, _)
RECURSIVE MaterializeItems(_, _, _, _, _)

\* A traversal that loads the placeholders of the outermost container only.
materialize_shallow(collection, h, arch) ==
    CASE IsPlaceholder(collection) -> _load_tensor(h[collection.id], arch)
      [] collection.kind = "map" ->
             LET r == LoadArgs(collection.items, h, arch)
             IN  [val |-> [collection EXCEPT !.items = r.vals], reqs |-> r.reqs]
      [] OTHER -> [val |-> collection, reqs |-> <<>>]

\* _materialize_tensors(collection): apply_to_collection calls _load_tensor on
\* every placeholder of the collection and rebuilds the mappings and sequences
\* around the results; any other object is returned as it is.
_materialize_tensors(collection, h, arch) ==
    CASE IsPlaceholder(collection) -> _load_tensor(h[collection.id], arch)
      [] collection.kind \in {"seq", "map"} ->
             LET r == MaterializeItems(collection.items, h, arch, <<>>, <<>>)
             IN  [val |-> [collection EXCEPT !.items = r.vals], reqs |-> r.reqs]
      [] OTHER -> [val |-> collection, reqs |-> <<>>]

MaterializeItems(items, h, arch, done, reqs) ==
    IF items = <<>> THEN [vals |-> done, reqs |-> reqs]
    ELSE LET r == _materialize_tensors(Head(items), h, arch)
         IN  MaterializeItems(Tail(items), h, arch, Append(done, r.val), reqs \o r.reqs)

\* __torch_function__(func, types, args, kwargs): what func is called with.
__torch_function__(args, kwargs, h, arch) ==
    LET kw == IF kwargs.kind = "None" THEN [kind |-> "dict", keys |-> <<>>, items |-> <<>>]
              ELSE kwargs
        loaded_args == LoadArgs(args, h, arch)
    IN  [val |-> [kind |-> "called", args |-> loaded_args.vals, kwargs |-> kw],
         reqs |-> loaded_args.reqs]

\* ------------------------------------------------------------------ the calls
\* `last` records the last call into the module: its arguments, what it
\* returned, the reads it issued against the file reader, and for the two
\* wrapping rebuilds the object they found (inner, and pre: its fields as found).
Call(op, arg, ret, reqs) ==
    [op |-> op, arg |-> arg, ret |-> ret, reqs |-> reqs, records |-> <<>>, ncalls |-> 0,
     inner |-> NoVal, pre |-> NoVal]

Refs(h) == {Ref(id) : id \in 1..Len(h)}
Fits(h) == Len(h) <= MaxObjs /\ \A id \in 1..Len(h) : Len(h[id].load) <= MaxWrap

\* Attribute names read on placeholders.
ReadNames ==
    {"dtype", "shape", "requires_grad", "stride", "data", "contiguous", "storageinfo"}
OwnAttrs == {"metatensor", "archiveinfo", "storageinfo", "rebuild_args"}

\* Concrete tensors a caller may hold: what the unredirected rebuild returns.
MetaTensors == {torch_rebuild_tensor_v2(persistent_load(c.pid), c.a) : c \in TensorCalls}

\* Arguments of a dispatched tensor operation.
ArgLists(h) ==
    {<<x>> : x \in Refs(h)} \cup {<<Const("alpha"), x>> : x \in Refs(h)}
        \cup {<<x, y>> : x \in Refs(h), y \in Refs(h)}
KwArgs(h) ==
    {[kind |-> "None"]}
        \cup {[kind |-> "dict", keys |-> <<"other">>, items |-> <<x>>] :
                 x \in {Ref(1), Const("alpha")}}

\* func with args, as rebuild_from_type_v2 may receive them.
FuncCalls(h) ==
    {[func |-> find_class("torch._utils", op), storage |-> persistent_load(c.pid), a |-> c.a] :
        op \in {"_rebuild_tensor_v2", "_rebuild_tensor"}, c \in TensorCalls}
    \cup {[func |-> "rebuild_parameter", data |-> d, requires_grad |-> TRUE,
           backward_hooks |-> "hooks"] : d \in Refs(h) \cup MetaTensors}

Init ==
    /\ archive = [fn \in FNs |-> Bytes(fn)]
    /\ stream = NoVal
    /\ heap = <<>>
    /\ graph = NoVal
    /\ recordReads = 0
    /\ storageReads = 0
    /\ last = Call("init", NoVal, NoVal, <<>>)

LazyLoad(pkl) ==
    /\ heap = <<>>
    /\ graph = NoVal
    /\ LET r == _lazy_load(pkl, heap)
       IN  /\ stream' = pkl
           /\ heap' = r.heap
           /\ graph' = r.val
           /\ recordReads' = recordReads + Len(r.records)
           /\ last' = [Call("lazy_load", pkl, r.val, <<>>) EXCEPT !.records = r.records]
    /\ UNCHANGED <<archive, storageReads>>

\* A _load_tensor that leaves the object with its composed closures dropped.
LoadTensorConsuming(id) ==
    /\ storageReads < MaxReads
    /\ LET r == _load_tensor(heap[id], archive)
       IN  /\ last' = Call("load_tensor", Ref(id), r.val, r.reqs)
           /\ storageReads' = storageReads + Len(r.reqs)
    /\ heap' = [heap EXCEPT ![id].load = <<>>]
    /\ UNCHANGED <<archive, stream, graph, recordReads>>

LoadTensor(id) ==
    /\ storageReads < MaxReads
    /\ LET r == _load_tensor(heap[id], archive)
       IN  /\ last' = Call("load_tensor", Ref(id), r.val, r.reqs)
           /\ storageReads' = storageReads + Len(r.reqs)
    /\ UNCHANGED <<archive, stream, heap, graph, recordReads>>

\* obj.name on placeholder id: the object's own attributes, else __getattr__.
GetAttr(id, name) ==
    /\ graph # NoVal
    /\ storageReads < MaxReads
    /\ LET r == IF name \in OwnAttrs
                THEN [val |-> [kind |-> "value", v |-> heap[id][name]], reqs |-> <<>>]
                ELSE __getattr__(heap[id], name, archive)
       IN  /\ last' = Call("getattr", [id |-> id, name |-> name], r.val, r.reqs)
           /\ storageReads' = storageReads + Len(r.reqs)
    /\ UNCHANGED <<archive, stream, heap, graph, recordReads>>

TorchFunction(args, kwargs) ==
    /\ graph # NoVal
    /\ \/ \E i \in 1..Len(args) : IsPlaceholder(args[i])
       \/ kwargs.kind = "dict" /\ \E i \in 1..Len(kwargs.items) : IsPlaceholder(kwargs.items[i])
    /\ LET r == __torch_function__(args, kwargs, heap, archive)
       IN  /\ storageReads + Len(r.reqs) <= MaxReads
           /\ last' = Call("torch_function", [args |-> args, kwargs |-> kwargs], r.val, r.reqs)
           /\ storageReads' = storageReads + Len(r.reqs)
    /\ UNCHANGED <<archive, stream, heap, graph, recordReads>>

MaterializeTensors(collection) ==
    /\ graph # NoVal
    /\ LET r == _materialize_tensors(collection, heap, archive)
       IN  /\ storageReads + Len(r.reqs) <= MaxReads
           /\ last' = Call("materialize_tensors", collection, r.val, r.reqs)
           /\ storageReads' = storageReads + Len(r.reqs)
    /\ UNCHANGED <<archive, stream, heap, graph, recordReads>>

\* The rebuild functions called directly, on objects the caller built itself.
RebuildTensorV2(c) ==
    /\ graph = NoVal
    /\ LET r == rebuild_tensor_v2(persistent_load(c.pid), c.a, "mup", heap)
       IN  /\ Fits(r.heap)
           /\ heap' = r.heap
           /\ last' = Call("rebuild_tensor_v2", c, r.val, <<>>)
    /\ UNCHANGED <<archive, stream, graph, recordReads, storageReads>>

RebuildParameter(data, requires_grad) ==
    /\ graph = NoVal
    /\ LET r == rebuild_parameter(data, requires_grad, "hooks", heap)
       IN  /\ Fits(r.heap)
           /\ heap' = r.heap
           /\ last' = [Call("rebuild_parameter",
                            [data |-> data, requires_grad |-> requires_grad,
                             backward_hooks |-> "hooks"], r.val, <<>>)
                          EXCEPT !.inner = data,
                                 !.pre = IF IsPlaceholder(data) THEN heap[data.id] ELSE NoVal]
    /\ UNCHANGED <<archive, stream, graph, recordReads, storageReads>>

RebuildFromTypeV2(call, new_type, state) ==
    /\ graph = NoVal
    /\ LET r == rebuild_from_type_v2(call, new_type, state, heap)
       IN  /\ Fits(r.heap)
           /\ heap' = r.heap
           /\ last' = [Call("rebuild_from_type_v2",
                            [func |-> call, new_type |-> new_type, state |-> state],
                            r.val, <<>>)
                          EXCEPT !.ncalls = r.ncalls, !.inner = r.inner, !.pre = r.pre]
    /\ UNCHANGED <<archive, stream, graph, recordReads, storageReads>>

Next ==
    \/ \E pkl \in Pickles : LazyLoad(pkl)
    \/ \E id \in 1..Len(heap) : LoadTensor(id)
    \/ \E id \in 1..Len(heap), name \in ReadNames : GetAttr(id, name)
    \/ \E args \in ArgLists(heap), kwargs \in KwArgs(heap) : TorchFunction(args, kwargs)
    \/ \E collection \in {graph} \cup Refs(heap) : MaterializeTensors(collection)
    \/ \E c \in TensorCalls : RebuildTensorV2(c)
    \/ \E data \in Refs(heap) \cup MetaTensors : RebuildParameter(data, TRUE)
    \/ \E call \in FuncCalls(heap), t \in TypeNames, st \in States :
           RebuildFromTypeV2(call, t, st)

Spec == Init /\ [][Next]_vars

\* ------------------------------------------------------------------ claims
RECURSIVE Flatten(_)
RECURSIVE FlattenItems(_)
\* The leaves of a nested value (or of a pickled container), in order.
Flatten(v) ==
    IF "items" \in DOMAIN v THEN FlattenItems(v.items) ELSE <<v>>
FlattenItems(items) ==
    IF items = <<>> THEN <<>> ELSE Flatten(Head(items)) \o FlattenItems(Tail(items))

RECURSIVE Shape(_)
\* A nested value with its leaves blanked.
Shape(v) ==
    IF "items" \in DOMAIN v
    THEN [v EXCEPT !.items = [i \in 1..Len(v.items) |-> Shape(v.items[i])]]
    ELSE "leaf"

KnownOnly(pkl) == ~HasOp(pkl, "_rebuild_tensor")
MaterializingCall(c) ==
    \/ c.op \in {"load_tensor", "torch_function", "materialize_tensors"}
    \/ c.op = "getattr" /\ c.arg.name = "contiguous"

\* C1: a complete _lazy_load of a stream built from the three redirected
\* rebuilds issues one get_record (data.pkl) and no get_storage_from_record,
\* every tensor leaf of the graph it returns is a placeholder, and the count of
\* storage reads only moves in a materialization, an operator dispatch or an
\* access to `contiguous`.
C1_LazyLoadReadsNoStorage ==
    [][/\ (last'.op = "lazy_load" /\ KnownOnly(last'.arg)) =>
            /\ last'.records = <<"data.pkl">>
            /\ recordReads' = recordReads + 1
            /\ last'.reqs = <<>>
            /\ storageReads' = 0
            /\ LET src == Flatten(last'.arg)
                   out == Flatten(last'.ret)
               IN  /\ Len(out) = Len(src)
                   /\ \A i \in 1..Len(src) :
                          IF src[i].op = "const" THEN out[i] = Const(src[i].v)
                          ELSE IsPlaceholder(out[i])
       /\ storageReads' # storageReads => MaterializingCall(last')]_vars

C1_Witness ==
    /\ last.op = "lazy_load"
    /\ KnownOnly(last.arg)
    /\ Len(heap) = 2
    /\ \E id \in 1..Len(heap) : Len(heap[id].load) = 2
    /\ storageReads = 0

\* C2: _materialize_tensors returns a structure of the same shape in which every
\* placeholder leaf is replaced by what its _load_tensor returns and every other
\* leaf is the input's; no placeholder remains, and the call loads once per
\* placeholder leaf.
C2_MaterializeAll ==
    last.op = "materialize_tensors" =>
        LET src == Flatten(last.arg)
            out == Flatten(last.ret)
            refs == {i \in 1..Len(src) : IsPlaceholder(src[i])}
        IN  /\ Shape(last.ret) = Shape(last.arg)
            /\ Len(out) = Len(src)
            /\ \A i \in 1..Len(src) :
                   /\ ~IsPlaceholder(out[i])
                   /\ IF i \in refs
                      THEN out[i] = _load_tensor(heap[src[i].id], archive).val
                      ELSE out[i] = src[i]
            /\ Len(last.reqs) = Cardinality(refs)

C2_Witness ==
    /\ last.op = "materialize_tensors"
    /\ last.arg.kind = "map"
    /\ last.arg.items[2].kind = "seq"
    /\ IsPlaceholder(last.arg.items[1])
    /\ IsPlaceholder(last.arg.items[2].items[1])
    /\ last.ret.items[2].items[1].kind = "tensor"
    /\ last.ret.items[2].items[2] = Const("lr")

\* Eager loading of a pickled tensor: the storage is read when the persistent id
\* is resolved and every rebuild is applied as it is unpickled.
EagerStorage(pid) ==
    [kind |-> "storage", dtype |-> StorageDtype(pid.cls), device |-> "cpu",
     nbytes |-> pid.numel * ElementSize(StorageDtype(pid.cls)), data |-> archive[pid.fn],
     archiveinfo |-> NoVal]

RECURSIVE Eager(_)
Eager(e) ==
    CASE e.op = "_rebuild_parameter" ->
             torch_rebuild_parameter(Eager(e.inner), e.requires_grad, e.backward_hooks)
      [] e.op = "_rebuild_from_type_v2" ->
             torch_rebuild_from_type_v2(Eager(e.inner), e.new_type, e.state)
      [] OTHER -> torch_rebuild_tensor_v2(EagerStorage(e.pid), e.a)

RECURSIVE BaseOp(_)
BaseOp(e) == IF "inner" \in DOMAIN e THEN BaseOp(e.inner) ELSE e.op

\* The pickled tensors of a stream that become placeholders, in the order
\* their objects are built.
Builders(pkl) == SelectSeq(Flatten(pkl), LAMBDA e : BaseOp(e) = "_rebuild_tensor_v2")

\* C3: materializing a placeholder of an unpickled graph yields the object the
\* eager chain of its pickled rebuilds yields: every wrapper once, inner to
\* outer, with its own requires_grad and state.
C3_NestedMatchesEager ==
    (last.op = "load_tensor" /\ stream # NoVal) =>
        last.ret = Eager(Builders(stream)[last.arg.id])

C3_Witness ==
    /\ last.op = "load_tensor"
    /\ stream # NoVal
    /\ LET e == Builders(stream)[last.arg.id]
       IN  /\ e.op = "_rebuild_parameter"
           /\ e.requires_grad
           /\ e.inner.op = "_rebuild_from_type_v2"
           /\ e.inner.inner.op = "_rebuild_tensor_v2"
           /\ ~e.inner.inner.a.requires_grad
    /\ last.ret.is_param
    /\ last.ret.requires_grad
    /\ last.ret.cls = "SubTensor"
    /\ last.ret.storage.data = Bytes(0)

\* C4: a materialization changes neither the placeholder (its metatensor,
\* storageinfo, rebuild_args and _load_tensor) nor the archive, and materializing
\* the same placeholder again yields an equal tensor.
C4_MaterializationIdempotent ==
    [][last'.op = "load_tensor" =>
           /\ heap' = heap
           /\ archive' = archive
           /\ (last.op = "load_tensor" /\ last.arg = last'.arg) => last'.ret = last.ret
           /\ last'.ret = _load_tensor(heap'[last'.arg.id], archive').val]_vars

C4_Witness ==
    /\ last.op = "load_tensor"
    /\ graph = NoVal
    /\ Len(heap) = 1
    /\ heap[1].load # <<>>
    /\ storageReads = 2

\* C5 as stated: shape, dtype and stride read on a placeholder succeed without
\* an archive read and equal those of the materialized tensor.
C5_Original ==
    (last.op = "getattr" /\ last.arg.name \in {"shape", "dtype", "stride"}) =>
        /\ last.ret.kind = "value"
        /\ last.reqs = <<>>
        /\ last.ret = TensorAttr(_load_tensor(heap[last.arg.id], archive).val, last.arg.name)

\* C5 amended: shape and dtype read on a placeholder succeed without an archive
\* read and equal those of the materialized tensor; stride is not on the
\* allow-list, so reading it fails with the attribute error (and reads
\* nothing), while the stride the metatensor holds equals the materialized one.
C5_Amended ==
    last.op = "getattr" =>
        LET p == heap[last.arg.id]
            t == _load_tensor(p, archive).val
        IN  /\ last.arg.name \in {"shape", "dtype"} =>
                /\ last.ret.kind = "value"
                /\ last.reqs = <<>>
                /\ last.ret = TensorAttr(t, last.arg.name)
            /\ last.arg.name = "stride" =>
                /\ last.ret.kind = "AttributeError"
                /\ last.reqs = <<>>
                /\ TensorAttr(p.metatensor, "stride") = TensorAttr(t, "stride")

C5_Witness ==
    /\ last.op = "getattr"
    /\ last.arg.name = "shape"
    /\ heap[last.arg.id].load # <<>>
    /\ last.ret = [kind |-> "value", v |-> <<2, 2>>]
    /\ storageReads = 0

\* C6: reading a name that is neither a field of the placeholder, nor on the
\* allow-list, nor `contiguous` fails with the attribute error, reads nothing
\* and changes no placeholder; reading `contiguous` materializes once.
C6_AttributeGuard ==
    [][last'.op = "getattr" =>
           LET name == last'.arg.name
           IN  /\ name \notin (OwnAttrs \cup MetaAttrs \cup {"contiguous"}) =>
                   /\ last'.ret.kind = "AttributeError"
                   /\ last'.reqs = <<>>
                   /\ storageReads' = storageReads
                   /\ heap' = heap
               /\ name = "contiguous" =>
                   /\ Len(last'.reqs) = 1
                   /\ storageReads' = storageReads + 1
                   /\ last'.ret.self = _load_tensor(heap[last'.arg.id], archive).val]_vars

C6_Witness ==
    /\ last.op = "getattr"
    /\ last.arg.name = "data"
    /\ last.ret.kind = "AttributeError"
    /\ storageReads = 0

\* The read a materialization of placeholder object p is to issue.
ExpectedRequest(p) ==
    [name |-> <<"data", p.storageinfo.fn>>,
     nbytes |-> p.storageinfo.numel * ElementSize(StorageDtype(p.storageinfo.cls)),
     kind |-> "UntypedStorage"]

\* C7: a materialization issues one get_storage_from_record, for data/<record>
\* of the placeholder's storageinfo with numel * element size bytes, whatever
\* was composed onto it; materializing k placeholder leaves issues k reads, one
\* per leaf, none shared between leaves.
C7_OneReadPerMaterialization ==
    /\ last.op = "load_tensor" => last.reqs = <<ExpectedRequest(heap[last.arg.id])>>
    /\ last.op = "materialize_tensors" =>
           LET refs == SelectSeq(Flatten(last.arg), IsPlaceholder)
           IN  last.reqs = [i \in 1..Len(refs) |-> ExpectedRequest(heap[refs[i].id])]

C7_Witness ==
    /\ last.op = "load_tensor"
    /\ Len(heap[last.arg.id].load) = 2
    /\ last.reqs = <<[name |-> <<"data", 1>>, nbytes |-> 4, kind |-> "UntypedStorage"]>>

\* C8 as stated: a dispatched operation with placeholders among its positional
\* or keyword arguments runs with every one of them materialized, in argument
\* order, and with the other arguments as given.
C8_DispatchMaterializesAll ==
    last.op = "torch_function" =>
        LET given == last.arg.args \o
                         (IF last.arg.kwargs.kind = "dict" THEN last.arg.kwargs.items ELSE <<>>)
            got == last.ret.args \o last.ret.kwargs.items
            refs == SelectSeq(given, IsPlaceholder)
        IN  /\ Len(got) = Len(given)
            /\ \A i \in 1..Len(given) :
                   IF IsPlaceholder(given[i])
                   THEN got[i] = _load_tensor(heap[given[i].id], archive).val
                   ELSE got[i] = given[i]
            /\ last.reqs = [i \in 1..Len(refs) |-> ExpectedRequest(heap[refs[i].id])]

\* The wrapper a rebuild call is to apply.
Wrapped(c, t) ==
    IF c.op = "rebuild_parameter"
    THEN torch_rebuild_parameter(t, c.arg.requires_grad, c.arg.backward_hooks)
    ELSE torch_rebuild_from_type_v2(t, c.arg.new_type, c.arg.state)
Deferred(c) ==
    c.op \in {"rebuild_parameter", "rebuild_from_type_v2"} /\ IsPlaceholder(c.inner)

\* C9 as stated: the wrapping rebuilds return a placeholder distinct from the
\* inner one and leave the inner one as it was.
C9_Original ==
    Deferred(last) =>
        /\ IsPlaceholder(last.ret)
        /\ last.ret # last.inner
        /\ heap[last.inner.id] = last.pre

\* C9 amended: the wrapping rebuilds return the inner placeholder itself, with
\* 'run the deferred load it had, then apply the wrapper' composed onto it in
\* place; its metatensor, storageinfo and rebuild_args are unchanged, and every
\* reference to it now materializes to the wrapped tensor.
C9_Amended ==
    Deferred(last) =>
        LET p == heap[last.inner.id]
        IN  /\ last.ret = last.inner
            /\ [p EXCEPT !.load = last.pre.load] = last.pre
            /\ Len(p.load) = Len(last.pre.load) + 1
            /\ _load_tensor(p, archive).val = Wrapped(last, _load_tensor(last.pre, archive).val)

C9_Witness ==
    /\ last.op = "rebuild_parameter"
    /\ IsPlaceholder(last.inner)
    /\ last.pre.load # <<>>
    /\ last.ret = last.inner
    /\ heap[last.inner.id] # last.pre

\* C10 as stated: rebuild_from_type_v2 invokes func(*args) once, whether the
\* result is a placeholder or concrete.
C10_FuncInvokedOnce ==
    last.op = "rebuild_from_type_v2" => last.ncalls = 1

====
